---- MODULE Spec2Model ----
(***************************************************************************)
(* A model of the social-networking backend: the routes of routes.ts and  *)
(* the concepts they synchronise (sessioning, authenticating, posting,    *)
(* friending, video calling, mood mapping, texting).                      *)
(*                                                                         *)
(* Every concept method is an operator from the collection (and its       *)
(* arguments) to a record [err, <collection>]: err is "ok" or the kind of *)
(* the error thrown, and the collection is returned unchanged when the    *)
(* method throws before its first write.  A route is an operator that     *)
(* composes them in the order of its awaits; an action applies one route  *)
(* (or one concept method) to the state and records the request and its   *)
(* outcome in `last`.  Where calls of one method run at the same time, a *)
(* call is a record of `reqs` and runs up to its next await in one step.  *)
(***************************************************************************)
EXTENDS Integers, Sequences, FiniteSets, Bags, TLC

VARIABLES
  users,     \* the accounts [id, username, password]
  session,   \* Sessions -> the logged-in user's id, or NoUser
  requests,  \* bag of pending friend requests [from, to]
  friends,   \* bag of friend edges [user1, user2]
  calls,     \* sequence of call documents; a call's _id is its index
  moods,     \* bag of mood documents [user, friend, mood]
  messages,  \* sequence of message documents
  posts,     \* sequence of post documents
  reqs,      \* the requests in flight, store call by store call
  clock,     \* the last value new Date() returned
  last       \* the last request and its outcome

vars ==
  <<users, session, requests, friends, calls, moods, messages, posts, reqs, clock, last>>

---------------------------------------------------------------------------
(* Bounds of the model *)

MaxCalls == 2      \* call documents
MaxTime == 2       \* the latest date
MaxMessages == 2   \* messages stored at once, when the TextingConcept runs alone
MaxPosts == 2      \* posts stored at once, in SpecPosts
MaxPeerDocs == 2   \* messages, moods, calls and posts together, in SpecPeers and SpecGuests

---------------------------------------------------------------------------
(* Identities *)

UserIds == {"u1", "u2", "u3"}
NoUser == "nobody"
UnknownName == "mallory"
Sessions == {"s1"}

\* The accounts that register.
Passwords == {"pw", "pw2"}

Accounts == {[id |-> "u1", username |-> "alice", password |-> "pw"],
             [id |-> "u2", username |-> "bob", password |-> "pw"],
             [id |-> "u3", username |-> "carol", password |-> "pw"]}

\* The usernames an account may be renamed to: the registered ones and a new one.
NewNames == {a.username : a \in Accounts} \cup {"al"}

NoTime == 0
NoStatus == "unset"
NoCall == 0

Min(a, b) == IF a <= b THEN a ELSE b

\* new Date(): the clock's value or a later one
Dates(c) == c .. Min(c + 1, MaxTime)

NoArg == ""

NoRequest ==
  [op |-> "none", user |-> NoUser, peer |-> NoUser, id |-> NoCall, arg |-> NoArg, err |-> "ok"]

Request(op, user, peer, id, err) ==
  [op |-> op, user |-> user, peer |-> peer, id |-> id, arg |-> NoArg, err |-> err]

\* A request that carries a string (a mood, a content, a username).
RequestWith(op, user, peer, id, arg, err) ==
  [op |-> op, user |-> user, peer |-> peer, id |-> id, arg |-> arg, err |-> err]

---------------------------------------------------------------------------
(* VideoCallingConcept *)

CallDoc(caller, recipient, startTime) ==
  [caller |-> caller, recipient |-> recipient, startTime |-> startTime,
   endTime |-> NoTime, status |-> NoStatus]

\* startCall that refuses a second un-ended call between the two
VideoCalling_startCall_OnePerPair(cs, caller, recipient, now) ==
  IF caller = recipient
  THEN [err |-> "BadValues", calls |-> cs]
  ELSE IF \E i \in DOMAIN cs : /\ cs[i].endTime = NoTime
                               /\ {cs[i].caller, cs[i].recipient} = {caller, recipient}
  THEN [err |-> "NotAllowed", calls |-> cs]
  ELSE [err |-> "ok", calls |-> Append(cs, CallDoc(caller, recipient, now))]

\* startCall without the caller = recipient check
VideoCalling_startCall_NoSelfCheck(cs, caller, recipient, now) ==
  [err |-> "ok", calls |-> Append(cs, CallDoc(caller, recipient, now))]

VideoCalling_startCall(cs, caller, recipient, now) ==
  IF caller = recipient
  THEN [err |-> "BadValues", calls |-> cs]
  ELSE [err |-> "ok", calls |-> Append(cs, CallDoc(caller, recipient, now))]

\* endCall without the call.endTime check
VideoCalling_endCall_NoEndedCheck(cs, callId, now) ==
  IF callId \notin DOMAIN cs
  THEN [err |-> "NotFound", calls |-> cs]
  ELSE [err |-> "ok", calls |-> [cs EXCEPT ![callId].endTime = now]]

VideoCalling_endCall(cs, callId, now) ==
  IF callId \notin DOMAIN cs
  THEN [err |-> "NotFound", calls |-> cs]
  ELSE IF cs[callId].endTime # NoTime
  THEN [err |-> "BadValues", calls |-> cs]
  ELSE [err |-> "ok", calls |-> [cs EXCEPT ![callId].endTime = now]]

\* The write of endCall on its own: partialUpdateOne({ _id }, { endTime }).
VideoCalling_writeEndTime(cs, callId, now) ==
  IF callId \in DOMAIN cs THEN [cs EXCEPT ![callId].endTime = now] ELSE cs

\* The un-ended calls that involve the user.
UnendedCallsOf(cs, userId) ==
  {i \in DOMAIN cs : /\ cs[i].endTime = NoTime
                     /\ (cs[i].caller = userId \/ cs[i].recipient = userId)}

\* readOne over the un-ended calls of the user: any one of them, NoCall if none.
VideoCalling_getCallStatusForUser(cs, userId) ==
  IF UnendedCallsOf(cs, userId) = {} THEN {NoCall} ELSE UnendedCallsOf(cs, userId)

\* The un-ended calls addressed to the user, accepted or not
PendingCallsTo_AnyStatus(cs, userId) ==
  {i \in DOMAIN cs : cs[i].endTime = NoTime /\ cs[i].recipient = userId}

\* The un-ended calls addressed to the user that nobody accepted yet.
PendingCallsTo(cs, userId) ==
  {i \in DOMAIN cs : /\ cs[i].endTime = NoTime
                     /\ cs[i].recipient = userId
                     /\ cs[i].status # "active"}

VideoCalling_getPendingCall(cs, userId) ==
  IF PendingCallsTo(cs, userId) = {} THEN {NoCall} ELSE PendingCallsTo(cs, userId)

\* The most recent pending call addressed to the user becomes active.
VideoCalling_acceptPendingCall(cs, recipientId) ==
  IF PendingCallsTo(cs, recipientId) = {}
  THEN [err |-> "NotFound", calls |-> cs]
  ELSE LET i == CHOOSE k \in PendingCallsTo(cs, recipientId) :
                  \A j \in PendingCallsTo(cs, recipientId) : j <= k
       IN [err |-> "ok", calls |-> [cs EXCEPT ![i].status = "active"]]

---------------------------------------------------------------------------
(* SessioningConcept and AuthenticatingConcept *)

\* Sessioning.getUser: the session's user; throws when nobody is logged in.
Sessioning_getUser(sessionUser) ==
  IF sessionUser = NoUser THEN "Unauthenticated" ELSE "ok"

\* Sessioning.start: logs the user in; throws when the session has a user.
Sessioning_start(sessionUser, userId) ==
  IF sessionUser # NoUser
  THEN [err |-> "NotAllowed", user |-> sessionUser]
  ELSE [err |-> "ok", user |-> userId]

\* Sessioning.end: logs the user out; throws when nobody is logged in.
Sessioning_end(sessionUser) ==
  IF sessionUser = NoUser
  THEN [err |-> "Unauthenticated", user |-> sessionUser]
  ELSE [err |-> "ok", user |-> NoUser]

\* Authing.getUserByUsername: the id of the account, NoUser when there is none.
Authing_getUserByUsername(username) ==
  IF \E u \in users : u.username = username
  THEN (CHOOSE u \in users : u.username = username).id
  ELSE NoUser

\* Authing.getUserById(id).username
Authing_usernameOf(userId) ==
  IF \E u \in users : u.id = userId
  THEN (CHOOSE u \in users : u.id = userId).username
  ELSE UnknownName

\* Authing.authenticate: the account's id when the password is the account's.
Authing_authenticate(username, password) ==
  IF \E u \in users : u.username = username /\ u.password = password
  THEN Authing_getUserByUsername(username)
  ELSE NoUser

\* Authing.updateUsername: refuses a username an account already has.
Authing_updateUsername(us, user, username) ==
  IF \E u \in us : u.username = username
  THEN [err |-> "AlreadyExists", users |-> us]
  ELSE [err |-> "ok",
        users |-> {IF u.id = user THEN [u EXCEPT !.username = username] ELSE u : u \in us}]

\* Authing.updatePassword: refuses when currentPassword is not the account's.
Authing_updatePassword(us, user, currentPassword, newPassword) ==
  IF ~ \E u \in us : u.id = user
  THEN [err |-> "NotFound", users |-> us]
  ELSE IF \E u \in us : u.id = user /\ u.password # currentPassword
  THEN [err |-> "NotAllowed", users |-> us]
  ELSE [err |-> "ok",
        users |-> {IF u.id = user THEN [u EXCEPT !.password = newPassword] ELSE u : u \in us}]

\* Authing.delete: removes the account and nothing else.
Authing_delete(us, user) ==
  [err |-> "ok", users |-> {u \in us : u.id # user}]

---------------------------------------------------------------------------
(* FriendingConcept *)

RequestDoc(from, to) == [from |-> from, to |-> to]
FriendDoc(u1, u2) == [user1 |-> u1, user2 |-> u2]

One(doc) == SetToBag({doc})

\* The friend edges between a and b, in either orientation.
EdgesBetween(fr, a, b) ==
  {d \in BagToSet(fr) : \/ (d.user1 = a /\ d.user2 = b)
                        \/ (d.user1 = b /\ d.user2 = a)}

AreFriends(fr, a, b) == EdgesBetween(fr, a, b) # {}

\* The pending requests between a and b, in either direction.
RequestsBetween(rq, a, b) ==
  {d \in BagToSet(rq) : \/ (d.from = a /\ d.to = b)
                        \/ (d.from = b /\ d.to = a)}

Friending_getFriends(fr, user) ==
  {d.user2 : d \in {e \in BagToSet(fr) : e.user1 = user}}
    \cup {d.user1 : d \in {e \in BagToSet(fr) : e.user2 = user}}

Friending_assertAreFriends(fr, a, b) ==
  IF AreFriends(fr, a, b) THEN "ok" ELSE "NotAllowed"

\* sendRequest that looks for a pending request from -> to only
Friending_sendRequest_OneDirection(rq, fr, from, to) ==
  IF from = to
  THEN [err |-> "NotAllowed", requests |-> rq, friends |-> fr]
  ELSE IF AreFriends(fr, from, to)
  THEN [err |-> "NotAllowed", requests |-> rq, friends |-> fr]
  ELSE IF BagIn(RequestDoc(from, to), rq)
  THEN [err |-> "AlreadyExists", requests |-> rq, friends |-> fr]
  ELSE [err |-> "ok", requests |-> rq (+) One(RequestDoc(from, to)), friends |-> fr]

Friending_sendRequest(rq, fr, from, to) ==
  IF from = to
  THEN [err |-> "NotAllowed", requests |-> rq, friends |-> fr]
  ELSE IF AreFriends(fr, from, to)
  THEN [err |-> "NotAllowed", requests |-> rq, friends |-> fr]
  ELSE IF RequestsBetween(rq, from, to) # {}
  THEN [err |-> "AlreadyExists", requests |-> rq, friends |-> fr]
  ELSE [err |-> "ok", requests |-> rq (+) One(RequestDoc(from, to)), friends |-> fr]

\* deleteOne of the pending request from -> to
Friending_removePendingRequest(rq, fr, from, to) ==
  IF ~BagIn(RequestDoc(from, to), rq)
  THEN [err |-> "NotFound", requests |-> rq, friends |-> fr]
  ELSE [err |-> "ok", requests |-> rq (-) One(RequestDoc(from, to)), friends |-> fr]

\* deleteOne that throws when it deleted nothing
Friending_deleteRequest_Counted(rq, from, to) ==
  IF ~BagIn(RequestDoc(from, to), rq)
  THEN [err |-> "NotFound", requests |-> rq]
  ELSE [err |-> "ok", requests |-> rq (-) One(RequestDoc(from, to))]

\* The delete-request write of acceptRequest on its own: deleteOne of the
\* request from -> to, which deletes nothing when another call already did.
Friending_deleteRequest(rq, from, to) ==
  [err |-> "ok", requests |-> rq (-) One(RequestDoc(from, to))]

Friending_removeRequest(rq, fr, from, to) ==
  Friending_removePendingRequest(rq, fr, from, to)

Friending_rejectRequest(rq, fr, from, to) ==
  Friending_removePendingRequest(rq, fr, from, to)

\* The request is deleted, then the edge is created.
Friending_acceptRequest(rq, fr, from, to) ==
  IF Friending_removePendingRequest(rq, fr, from, to).err # "ok"
  THEN Friending_removePendingRequest(rq, fr, from, to)
  ELSE [err |-> "ok",
        requests |-> Friending_removePendingRequest(rq, fr, from, to).requests,
        friends |-> fr (+) One(FriendDoc(from, to))]

\* deleteOne of an edge between the two, whichever way it was stored
Friending_removeFriend(rq, fr, user, friend) ==
  IF ~AreFriends(fr, user, friend)
  THEN [err |-> "NotFound", requests |-> rq, friends |-> fr]
  ELSE [err |-> "ok", requests |-> rq,
        friends |-> fr (-) One(CHOOSE d \in EdgesBetween(fr, user, friend) : TRUE)]

---------------------------------------------------------------------------
(* MoodMappingConcept, the (user, friend) revision the routes call *)

Emojis == {"E1", "E2"}
MoodInputs == Emojis \cup {"", "sad"}
NoMood == "null"

MoodDoc(user, friend, mood) == [user |-> user, friend |-> friend, mood |-> mood]

\* !mood || !/^\p{Emoji}$/u.test(mood)
InvalidMood(mood) == mood = "" \/ mood \notin Emojis

MoodsOf(ms, user) == {d \in BagToSet(ms) : d.user = user}

MoodsOfPair(ms, user, friend) ==
  {d \in BagToSet(ms) : d.user = user /\ d.friend = friend}

\* partialUpdateOne({user, friend}, {mood}): one matching document, if any
MoodMapping_updateOne(ms, user, friend, mood) ==
  IF MoodsOfPair(ms, user, friend) = {}
  THEN ms
  ELSE LET d == CHOOSE e \in MoodsOfPair(ms, user, friend) : TRUE
       IN (ms (-) One(d)) (+) One(MoodDoc(user, friend, mood))

MoodMapping_setMood(ms, user, friend, mood) ==
  IF InvalidMood(mood)
  THEN [err |-> "BadValues", moods |-> ms]
  ELSE IF MoodsOf(ms, user) # {}
  THEN [err |-> "ok", moods |-> MoodMapping_updateOne(ms, user, friend, mood)]
  ELSE [err |-> "ok", moods |-> ms (+) One(MoodDoc(user, friend, mood))]

\* readOne({user, friend}).mood, null when there is no document
MoodMapping_readMood(ms, user, friend) ==
  IF MoodsOfPair(ms, user, friend) = {}
  THEN {NoMood}
  ELSE {d.mood : d \in MoodsOfPair(ms, user, friend)}

MoodMapping_getBothMoods(ms, user, friend) ==
  {[yourMood |-> y, friendMood |-> f] :
     y \in MoodMapping_readMood(ms, user, friend),
     f \in MoodMapping_readMood(ms, friend, user)}

MoodMapping_removeMood(ms, user, friend) ==
  IF MoodsOfPair(ms, user, friend) = {}
  THEN [err |-> "NotFound", moods |-> ms]
  ELSE [err |-> "ok",
        moods |-> ms (-) One(CHOOSE d \in MoodsOfPair(ms, user, friend) : TRUE)]

---------------------------------------------------------------------------
(* MoodMappingConcept, the per-user revision: a document is {user, mood},  *)
(* written here as a MoodDoc whose friend is NoUser                        *)

\* The other revision refuses the empty mood only.
UserMood_invalid(mood) == mood = ""

\* partialUpdateOne({ user }, { mood }): the first document of the user.
UserMood_updateOne(ms, user, mood) ==
  IF MoodsOf(ms, user) = {} THEN ms
  ELSE LET d == CHOOSE e \in MoodsOf(ms, user) : TRUE
       IN (ms (-) One(d)) (+) One(MoodDoc(user, NoUser, mood))

UserMood_setMood(ms, user, mood) ==
  IF UserMood_invalid(mood) THEN [err |-> "BadValues", moods |-> ms]
  ELSE IF MoodsOf(ms, user) # {}
  THEN [err |-> "ok", moods |-> UserMood_updateOne(ms, user, mood)]
  ELSE [err |-> "ok", moods |-> ms (+) One(MoodDoc(user, NoUser, mood))]

---------------------------------------------------------------------------
(* TextingConcept *)

Contents == {"", "hi"}

MessageDoc(id, sender, recipient, content, timestamp) ==
  [id |-> id, sender |-> sender, recipient |-> recipient,
   content |-> content, timestamp |-> timestamp]

\* The _id createOne gives a new document: one that no stored document has.
NewId(msgs) ==
  CHOOSE id \in 1 .. (Len(msgs) + 1) :
    /\ \A i \in DOMAIN msgs : msgs[i].id # id
    /\ \A smaller \in 1 .. (id - 1) : \E i \in DOMAIN msgs : msgs[i].id = smaller

Texting_sendMessage(msgs, sender, recipient, content, now) ==
  IF content = ""
  THEN [err |-> "BadValues", messages |-> msgs]
  ELSE [err |-> "ok",
        messages |-> Append(msgs, MessageDoc(NewId(msgs), sender, recipient, content, now))]

\* The positions of the documents the $or filter matches.
MessagesBetween(msgs, user1, user2) ==
  {i \in DOMAIN msgs :
     \/ msgs[i].sender = user1 /\ msgs[i].recipient = user2
     \/ msgs[i].sender = user2 /\ msgs[i].recipient = user1}

\* Every order in which position p can list the n documents at `found`.
Listings(found) ==
  {p \in [1 .. Cardinality(found) -> found] :
     \A j, k \in 1 .. Cardinality(found) : j # k => p[j] # p[k]}

Texting_getMessagesBetweenUsers_Descending(msgs, user1, user2) ==
  {[k \in DOMAIN p |-> msgs[p[k]]] :
     p \in {q \in Listings(MessagesBetween(msgs, user1, user2)) :
              \A j, k \in DOMAIN q :
                j < k => msgs[q[j]].timestamp >= msgs[q[k]].timestamp}}

\* readMany(filter, {sort: {timestamp: 1}}): the matching documents by
\* ascending timestamp; documents with equal timestamps come in any order.
Texting_getMessagesBetweenUsers(msgs, user1, user2) ==
  {[k \in DOMAIN p |-> msgs[p[k]]] :
     p \in {q \in Listings(MessagesBetween(msgs, user1, user2)) :
              \A j, k \in DOMAIN q :
                j < k => msgs[q[j]].timestamp <= msgs[q[k]].timestamp}}

\* deleteOne({_id}): no error when no document has this _id.
Texting_deleteMessage(msgs, id) ==
  [err |-> "ok", messages |-> SelectSeq(msgs, LAMBDA m : m.id # id)]

---------------------------------------------------------------------------
(* PostingConcept *)

PostContents == {"p1", "p2"}

PostDoc(id, author, content) == [id |-> id, author |-> author, content |-> content]

PostsWithId(ps, id) == {i \in DOMAIN ps : ps[i].id = id}

Posting_create(ps, author, content) ==
  [err |-> "ok", posts |-> Append(ps, PostDoc(NewId(ps), author, content))]

\* Posting.assertAuthorIsUser: throws when there is no such post, or when
\* its author is another user.
Posting_assertAuthorIsUser(ps, id, user) ==
  IF PostsWithId(ps, id) = {} THEN "NotFound"
  ELSE IF \E i \in PostsWithId(ps, id) : ps[i].author # user THEN "NotAllowed"
  ELSE "ok"

Posting_update(ps, id, content) ==
  [err |-> "ok",
   posts |-> [i \in DOMAIN ps |-> IF ps[i].id = id THEN [ps[i] EXCEPT !.content = content]
                                                   ELSE ps[i]]]

Posting_delete(ps, id) ==
  [err |-> "ok", posts |-> SelectSeq(ps, LAMBDA post : post.id # id)]

---------------------------------------------------------------------------
(* Routes: what a handler returns is [err, <the collections after it>] *)

Same ==
  [err |-> "ok", users |-> users, requests |-> requests, friends |-> friends,
   calls |-> calls, moods |-> moods, messages |-> messages, posts |-> posts]

Throw(e) == [Same EXCEPT !.err = e]

Routes_sendFriendRequest(user, to) ==
  IF Sessioning_getUser(user) # "ok" THEN Throw(Sessioning_getUser(user))
  ELSE IF Authing_getUserByUsername(to) = NoUser THEN Throw("NotFound")
  ELSE LET r == Friending_sendRequest(requests, friends, user, Authing_getUserByUsername(to))
       IN [Same EXCEPT !.err = r.err, !.requests = r.requests, !.friends = r.friends]

\* DELETE /friend/requests/:to with removeRequest's arguments swapped
Routes_removeFriendRequest_Swapped(user, to) ==
  IF Sessioning_getUser(user) # "ok" THEN Throw(Sessioning_getUser(user))
  ELSE IF Authing_getUserByUsername(to) = NoUser THEN Throw("NotFound")
  ELSE LET r == Friending_removeRequest(requests, friends, Authing_getUserByUsername(to), user)
       IN [Same EXCEPT !.err = r.err, !.requests = r.requests, !.friends = r.friends]

Routes_removeFriendRequest(user, to) ==
  IF Sessioning_getUser(user) # "ok" THEN Throw(Sessioning_getUser(user))
  ELSE IF Authing_getUserByUsername(to) = NoUser THEN Throw("NotFound")
  ELSE LET r == Friending_removeRequest(requests, friends, user, Authing_getUserByUsername(to))
       IN [Same EXCEPT !.err = r.err, !.requests = r.requests, !.friends = r.friends]

\* PUT /friend/accept/:from with acceptRequest's arguments swapped
Routes_acceptFriendRequest_Swapped(user, from) ==
  IF Sessioning_getUser(user) # "ok" THEN Throw(Sessioning_getUser(user))
  ELSE IF Authing_getUserByUsername(from) = NoUser THEN Throw("NotFound")
  ELSE LET r == Friending_acceptRequest(requests, friends, user, Authing_getUserByUsername(from))
       IN [Same EXCEPT !.err = r.err, !.requests = r.requests, !.friends = r.friends]

\* PUT /friend/accept/:from that accepts the request in either direction
Routes_acceptFriendRequest_EitherWay(user, from) ==
  IF Sessioning_getUser(user) # "ok" THEN Throw(Sessioning_getUser(user))
  ELSE IF Authing_getUserByUsername(from) = NoUser THEN Throw("NotFound")
  ELSE LET f == Authing_getUserByUsername(from)
           r == IF BagIn(RequestDoc(f, user), requests)
                THEN Friending_acceptRequest(requests, friends, f, user)
                ELSE Friending_acceptRequest(requests, friends, user, f)
       IN [Same EXCEPT !.err = r.err, !.requests = r.requests, !.friends = r.friends]

Routes_acceptFriendRequest(user, from) ==
  IF Sessioning_getUser(user) # "ok" THEN Throw(Sessioning_getUser(user))
  ELSE IF Authing_getUserByUsername(from) = NoUser THEN Throw("NotFound")
  ELSE LET r == Friending_acceptRequest(requests, friends, Authing_getUserByUsername(from), user)
       IN [Same EXCEPT !.err = r.err, !.requests = r.requests, !.friends = r.friends]

Routes_rejectFriendRequest(user, from) ==
  IF Sessioning_getUser(user) # "ok" THEN Throw(Sessioning_getUser(user))
  ELSE IF Authing_getUserByUsername(from) = NoUser THEN Throw("NotFound")
  ELSE LET r == Friending_rejectRequest(requests, friends, Authing_getUserByUsername(from), user)
       IN [Same EXCEPT !.err = r.err, !.requests = r.requests, !.friends = r.friends]

Routes_removeFriend(user, friend) ==
  IF Sessioning_getUser(user) # "ok" THEN Throw(Sessioning_getUser(user))
  ELSE IF Authing_getUserByUsername(friend) = NoUser THEN Throw("NotFound")
  ELSE LET r == Friending_removeFriend(requests, friends, user, Authing_getUserByUsername(friend))
       IN [Same EXCEPT !.err = r.err, !.requests = r.requests, !.friends = r.friends]

\* GET /friends: the usernames of the user's friends
Routes_getFriends(user) ==
  {Authing_usernameOf(f) : f \in Friending_getFriends(friends, user)}

Routes_setMood(user, mood, recipient) ==
  IF Sessioning_getUser(user) # "ok" THEN Throw(Sessioning_getUser(user))
  ELSE IF Authing_getUserByUsername(recipient) = NoUser THEN Throw("NotFound")
  ELSE IF Friending_assertAreFriends(friends, user, Authing_getUserByUsername(recipient)) # "ok"
  THEN Throw("NotAllowed")
  ELSE LET r == MoodMapping_setMood(moods, user, Authing_getUserByUsername(recipient), mood)
       IN [Same EXCEPT !.err = r.err, !.moods = r.moods]

Routes_getMood(user, recipient) ==
  IF Sessioning_getUser(user) # "ok" THEN Throw(Sessioning_getUser(user))
  ELSE IF Authing_getUserByUsername(recipient) = NoUser THEN Throw("NotFound")
  ELSE IF Friending_assertAreFriends(friends, user, Authing_getUserByUsername(recipient)) # "ok"
  THEN Throw("NotAllowed")
  ELSE Same

\* What reading a field of an object gives when the object has no such field.
Undefined == "undefined"

Field(object, name) == IF name \in DOMAIN object THEN object[name] ELSE Undefined

\* value || "": null, undefined and the empty string all give "".
OrEmpty(value) == IF value \in {NoMood, Undefined, ""} THEN "" ELSE value

\* `You: ${you}    ${recipientName}: ${theirs}`
MoodAnswer(you, recipientName, theirs) ==
  [you |-> you, recipientName |-> recipientName, theirs |-> theirs]

\* What GET /moods/:recipient may answer once its checks have passed.
Routes_getMoodAnswers(user, recipient) ==
  {MoodAnswer(OrEmpty(Field(m, "yourMood")), recipient, OrEmpty(Field(m, "recipientMood"))) :
     m \in MoodMapping_getBothMoods(moods, user, Authing_getUserByUsername(recipient))}

Routes_removeMood(user, recipient) ==
  IF Sessioning_getUser(user) # "ok" THEN Throw(Sessioning_getUser(user))
  ELSE IF Authing_getUserByUsername(recipient) = NoUser THEN Throw("NotFound")
  ELSE IF Friending_assertAreFriends(friends, user, Authing_getUserByUsername(recipient)) # "ok"
  THEN Throw("NotAllowed")
  ELSE LET r == MoodMapping_removeMood(moods, user, Authing_getUserByUsername(recipient))
       IN [Same EXCEPT !.err = r.err, !.moods = r.moods]

\* POST /calls without Friending.assertAreFriends
Routes_startCall_NoFriendCheck(user, recipient, now) ==
  IF Sessioning_getUser(user) # "ok" THEN Throw(Sessioning_getUser(user))
  ELSE IF Authing_getUserByUsername(recipient) = NoUser THEN Throw("NotFound")
  ELSE LET r == VideoCalling_startCall(calls, user, Authing_getUserByUsername(recipient), now)
       IN [Same EXCEPT !.err = r.err, !.calls = r.calls]

Routes_startCall(user, recipient, now) ==
  IF Sessioning_getUser(user) # "ok" THEN Throw(Sessioning_getUser(user))
  ELSE IF Authing_getUserByUsername(recipient) = NoUser THEN Throw("NotFound")
  ELSE IF Friending_assertAreFriends(friends, user, Authing_getUserByUsername(recipient)) # "ok"
  THEN Throw("NotAllowed")
  ELSE LET r == VideoCalling_startCall(calls, user, Authing_getUserByUsername(recipient), now)
       IN [Same EXCEPT !.err = r.err, !.calls = r.calls]

\* call: what getCallStatusForUser returned
Routes_endCall(user, call, now) ==
  IF Sessioning_getUser(user) # "ok" THEN Throw(Sessioning_getUser(user))
  ELSE IF call = NoCall THEN Throw("Error")
  ELSE LET r == VideoCalling_endCall(calls, call, now)
       IN [Same EXCEPT !.err = r.err, !.calls = r.calls]

Routes_acceptCall(user) ==
  IF Sessioning_getUser(user) # "ok" THEN Throw(Sessioning_getUser(user))
  ELSE LET r == VideoCalling_acceptPendingCall(calls, user)
       IN [Same EXCEPT !.err = r.err, !.calls = r.calls]

NoName == ""

CallStatus(status, caller, recipient, otherUser) ==
  [status |-> status, caller |-> caller, recipient |-> recipient, otherUser |-> otherUser]

\* GET /calls/status for a logged-in user; call and pendingCall are what
\* getCallStatusForUser and getPendingCall returned.
Routes_getCallStatus(user, call, pendingCall) ==
  IF call = NoCall
  THEN IF pendingCall # NoCall
       THEN CallStatus("pending", Authing_usernameOf(calls[pendingCall].caller), NoName, NoName)
       ELSE CallStatus("none", NoName, NoName, NoName)
  ELSE LET isCaller == calls[call].caller = user
           otherUser == Authing_usernameOf(IF isCaller THEN calls[call].recipient
                                                       ELSE calls[call].caller)
       IN IF calls[call].status = "pending"
          THEN IF isCaller
               THEN CallStatus("pending", NoName, otherUser, NoName)
               ELSE CallStatus("pending", otherUser, NoName, NoName)
          ELSE CallStatus("active", NoName, NoName, otherUser)

\* Every answer GET /calls/status may give the user in this state.
CallStatusAnswers(user) ==
  {Routes_getCallStatus(user, c, p) :
     c \in VideoCalling_getCallStatusForUser(calls, user),
     p \in VideoCalling_getPendingCall(calls, user)}

Routes_getMessagesBetweenUsers(user, recipient) ==
  IF Sessioning_getUser(user) # "ok" THEN Throw(Sessioning_getUser(user))
  ELSE IF Authing_getUserByUsername(recipient) = NoUser THEN Throw("NotFound")
  ELSE IF Friending_assertAreFriends(friends, user, Authing_getUserByUsername(recipient)) # "ok"
  THEN Throw("NotAllowed")
  ELSE Same

Routes_sendMessage(user, recipient, content, now) ==
  IF Sessioning_getUser(user) # "ok" THEN Throw(Sessioning_getUser(user))
  ELSE IF Authing_getUserByUsername(recipient) = NoUser THEN Throw("NotFound")
  ELSE IF Friending_assertAreFriends(friends, user, Authing_getUserByUsername(recipient)) # "ok"
  THEN Throw("NotAllowed")
  ELSE LET r == Texting_sendMessage(messages, user, Authing_getUserByUsername(recipient), content, now)
       IN [Same EXCEPT !.err = r.err, !.messages = r.messages]

Routes_updateUsername(user, username) ==
  IF Sessioning_getUser(user) # "ok" THEN Throw(Sessioning_getUser(user))
  ELSE LET r == Authing_updateUsername(users, user, username)
       IN [Same EXCEPT !.err = r.err, !.users = r.users]

Routes_updatePassword(user, currentPassword, newPassword) ==
  IF Sessioning_getUser(user) # "ok" THEN Throw(Sessioning_getUser(user))
  ELSE LET r == Authing_updatePassword(users, user, currentPassword, newPassword)
       IN [Same EXCEPT !.err = r.err, !.users = r.users]

\* The session is ended between the two; DeleteUser writes it.
Routes_deleteUser(user) ==
  IF Sessioning_getUser(user) # "ok" THEN Throw(Sessioning_getUser(user))
  ELSE LET r == Authing_delete(users, user)
       IN [Same EXCEPT !.err = r.err, !.users = r.users]

Routes_createPost_NoSession(user, content) ==
  [Same EXCEPT !.posts = Posting_create(posts, user, content).posts]

Routes_createPost(user, content) ==
  IF Sessioning_getUser(user) # "ok" THEN Throw(Sessioning_getUser(user))
  ELSE LET r == Posting_create(posts, user, content)
       IN [Same EXCEPT !.err = r.err, !.posts = r.posts]

Routes_updatePost_NoAuthorCheck(user, id, content) ==
  IF Sessioning_getUser(user) # "ok" THEN Throw(Sessioning_getUser(user))
  ELSE [Same EXCEPT !.posts = Posting_update(posts, id, content).posts]

Routes_updatePost(user, id, content) ==
  IF Sessioning_getUser(user) # "ok" THEN Throw(Sessioning_getUser(user))
  ELSE IF Posting_assertAuthorIsUser(posts, id, user) # "ok"
  THEN Throw(Posting_assertAuthorIsUser(posts, id, user))
  ELSE LET r == Posting_update(posts, id, content)
       IN [Same EXCEPT !.err = r.err, !.posts = r.posts]

Routes_deletePost(user, id) ==
  IF Sessioning_getUser(user) # "ok" THEN Throw(Sessioning_getUser(user))
  ELSE IF Posting_assertAuthorIsUser(posts, id, user) # "ok"
  THEN Throw(Posting_assertAuthorIsUser(posts, id, user))
  ELSE LET r == Posting_delete(posts, id)
       IN [Same EXCEPT !.err = r.err, !.posts = r.posts]

---------------------------------------------------------------------------
(* Requests in flight: a request runs one store call per step *)

MaxRequests == 2   \* requests that run store call by store call

ReqIds == 1 .. MaxRequests

Idle ==
  [op |-> "none", pc |-> "idle", a |-> NoUser, b |-> NoUser, arg |-> NoArg,
   id |-> NoCall, seen |-> FALSE, err |-> "ok"]

NoRequests == [r \in ReqIds |-> Idle]

---------------------------------------------------------------------------
(* The state once the accounts are registered *)

Init ==
  /\ users = Accounts
  /\ session = [s \in Sessions |-> NoUser]
  /\ requests = EmptyBag
  /\ friends = EmptyBag
  /\ calls = <<>>
  /\ moods = EmptyBag
  /\ messages = <<>>
  /\ posts = <<>>
  /\ reqs = NoRequests
  /\ clock = 1
  /\ last = NoRequest

\* The same, with only alice and bob registered.
InitPair ==
  /\ users = {a \in Accounts : a.username \in {"alice", "bob"}}
  /\ session = [s \in Sessions |-> NoUser]
  /\ requests = EmptyBag
  /\ friends = EmptyBag
  /\ calls = <<>>
  /\ moods = EmptyBag
  /\ messages = <<>>
  /\ posts = <<>>
  /\ reqs = NoRequests
  /\ clock = 1
  /\ last = NoRequest

\* The names and ids a request may carry: the accounts' and an unknown one.
Names == {a.username : a \in users} \cup {UnknownName}
Ids == {a.id : a \in users}
CallIds == 1 .. (MaxCalls + 1)

\* The messages, moods, calls and posts a handler that returned r leaves.
DocsIn(r) == Len(r.calls) + Len(r.messages) + BagCardinality(r.moods) + Len(r.posts)

\* The collections and `last` after a handler that returned r.
EffectWith(op, user, peer, id, arg, r) ==
  /\ users' = r.users
  /\ posts' = r.posts
  /\ reqs' = reqs
  /\ requests' = r.requests
  /\ friends' = r.friends
  /\ calls' = r.calls
  /\ moods' = r.moods
  /\ messages' = r.messages
  /\ last' = RequestWith(op, user, peer, id, arg, r.err)

Effect(op, user, peer, id, r) == EffectWith(op, user, peer, id, NoArg, r)

---------------------------------------------------------------------------
(* Requests: one action per route *)

LogIn ==
  \E s \in Sessions, username \in Names, password \in Passwords :
    LET u == Authing_authenticate(username, password)
        r == Sessioning_start(session[s], u)
    IN /\ session' = [session EXCEPT ![s] = IF u = NoUser THEN @ ELSE r.user]
       /\ Effect("POST /login", session[s], username, NoCall,
                 Throw(IF u = NoUser THEN "NotAllowed" ELSE r.err))
       /\ UNCHANGED clock

LogOut ==
  \E s \in Sessions :
    /\ session' = [session EXCEPT ![s] = Sessioning_end(session[s]).user]
    /\ Effect("POST /logout", session[s], NoName, NoCall, Throw(Sessioning_end(session[s]).err))
    /\ UNCHANGED clock

SendFriendRequest ==
  \E s \in Sessions, to \in Names :
    /\ Effect("POST /friend/requests", session[s], to, NoCall,
              Routes_sendFriendRequest(session[s], to))
    /\ UNCHANGED <<session, clock>>

RemoveFriendRequest ==
  \E s \in Sessions, to \in Names :
    /\ Effect("DELETE /friend/requests", session[s], to, NoCall,
              Routes_removeFriendRequest(session[s], to))
    /\ UNCHANGED <<session, clock>>

AcceptFriendRequest ==
  \E s \in Sessions, from \in Names :
    /\ Effect("PUT /friend/accept", session[s], from, NoCall,
              Routes_acceptFriendRequest(session[s], from))
    /\ UNCHANGED <<session, clock>>

RejectFriendRequest ==
  \E s \in Sessions, from \in Names :
    /\ Effect("PUT /friend/reject", session[s], from, NoCall,
              Routes_rejectFriendRequest(session[s], from))
    /\ UNCHANGED <<session, clock>>

RemoveFriend ==
  \E s \in Sessions, friend \in Names :
    /\ Effect("DELETE /friends", session[s], friend, NoCall,
              Routes_removeFriend(session[s], friend))
    /\ UNCHANGED <<session, clock>>

SetMood(maxDocs) ==
  \E s \in Sessions, mood \in MoodInputs, recipient \in Names :
    LET r == Routes_setMood(session[s], mood, recipient)
    IN /\ DocsIn(r) <= maxDocs
       /\ Effect("POST /moods", session[s], recipient, NoCall, r)
       /\ UNCHANGED <<session, clock>>

GetMood ==
  \E s \in Sessions, recipient \in Names :
    /\ Effect("GET /moods", session[s], recipient, NoCall, Routes_getMood(session[s], recipient))
    /\ UNCHANGED <<session, clock>>

RemoveMood ==
  \E s \in Sessions, recipient \in Names :
    /\ Effect("DELETE /moods", session[s], recipient, NoCall,
              Routes_removeMood(session[s], recipient))
    /\ UNCHANGED <<session, clock>>

StartCall(maxDocs) ==
  \E s \in Sessions, recipient \in Names, now \in Dates(clock) :
    LET r == Routes_startCall(session[s], recipient, now)
    IN /\ DocsIn(r) <= maxDocs
       /\ Effect("POST /calls", session[s], recipient, NoCall, r)
       /\ clock' = IF r.err = "ok" THEN now ELSE clock
       /\ UNCHANGED session

EndCall ==
  \E s \in Sessions, now \in Dates(clock) :
    \E call \in VideoCalling_getCallStatusForUser(calls, session[s]) :
      LET r == Routes_endCall(session[s], call, now)
      IN /\ Effect("PUT /calls/end", session[s], NoName, call, r)
         /\ clock' = IF r.err = "ok" THEN now ELSE clock
         /\ UNCHANGED session

AcceptCall ==
  \E s \in Sessions :
    /\ Effect("PUT /calls/accept", session[s], NoName, NoCall, Routes_acceptCall(session[s]))
    /\ UNCHANGED <<session, clock>>

GetMessagesBetweenUsers ==
  \E s \in Sessions, recipient \in Names :
    /\ Effect("GET /messages", session[s], recipient, NoCall,
              Routes_getMessagesBetweenUsers(session[s], recipient))
    /\ UNCHANGED <<session, clock>>

SendMessage(maxDocs) ==
  \E s \in Sessions, recipient \in Names, content \in Contents, now \in Dates(clock) :
    LET r == Routes_sendMessage(session[s], recipient, content, now)
    IN /\ DocsIn(r) <= maxDocs
       /\ Effect("POST /messages", session[s], recipient, NoCall, r)
       /\ clock' = IF r.err = "ok" THEN now ELSE clock
       /\ UNCHANGED session

UpdateUsername ==
  \E s \in Sessions, username \in NewNames :
    /\ Effect("PATCH /users/username", session[s], username, NoCall,
              Routes_updateUsername(session[s], username))
    /\ UNCHANGED <<session, clock>>

UpdatePassword ==
  \E s \in Sessions, currentPassword \in Passwords, newPassword \in Passwords :
    /\ Effect("PATCH /users/password", session[s], NoName, NoCall,
              Routes_updatePassword(session[s], currentPassword, newPassword))
    /\ UNCHANGED <<session, clock>>

DeleteUser ==
  \E s \in Sessions :
    LET r == Routes_deleteUser(session[s])
    IN /\ session' = [session EXCEPT ![s] = IF r.err = "ok" THEN Sessioning_end(@).user ELSE @]
       /\ Effect("DELETE /users", session[s], NoName, NoCall, r)
       /\ UNCHANGED clock

PostIds == 1 .. (MaxPosts + 1)

CreatePost(maxDocs) ==
  \E s \in Sessions, content \in PostContents :
    LET r == Routes_createPost(session[s], content)
    IN /\ DocsIn(r) <= maxDocs
       /\ EffectWith("POST /posts", session[s], NoName, NoCall, content, r)
       /\ UNCHANGED <<session, clock>>

UpdatePost ==
  \E s \in Sessions, id \in PostIds, content \in PostContents :
    LET r == Routes_updatePost(session[s], id, content)
    IN /\ EffectWith("PATCH /posts", session[s], NoName, id, content, r)
       /\ UNCHANGED <<session, clock>>

DeletePost ==
  \E s \in Sessions, id \in PostIds :
    /\ Effect("DELETE /posts", session[s], NoName, id, Routes_deletePost(session[s], id))
    /\ UNCHANGED <<session, clock>>

---------------------------------------------------------------------------
(* Requests of a session nobody is logged in to *)

Guest == \A s \in Sessions : session[s] = NoUser

---------------------------------------------------------------------------
(* Direct calls of the VideoCallingConcept methods *)

DoStartCall ==
  \E caller \in Ids, recipient \in Ids, now \in Dates(clock) :
    LET r == VideoCalling_startCall(calls, caller, recipient, now)
    IN /\ Len(r.calls) <= MaxCalls
       /\ calls' = r.calls
       /\ clock' = IF r.err = "ok" THEN now ELSE clock
       /\ last' = Request("startCall", caller, recipient, NoCall, r.err)
       /\ UNCHANGED <<users, session, requests, friends, moods, messages, posts, reqs>>

DoEndCall ==
  \E callId \in CallIds, now \in Dates(clock) :
    LET r == VideoCalling_endCall(calls, callId, now)
    IN /\ calls' = r.calls
       /\ clock' = IF r.err = "ok" THEN now ELSE clock
       /\ last' = Request("endCall", NoUser, NoUser, callId, r.err)
       /\ UNCHANGED <<users, session, requests, friends, moods, messages, posts, reqs>>

DoAcceptPendingCall ==
  \E recipientId \in Ids :
    LET r == VideoCalling_acceptPendingCall(calls, recipientId)
    IN /\ calls' = r.calls
       /\ last' = Request("acceptPendingCall", recipientId, NoUser, NoCall, r.err)
       /\ UNCHANGED <<users, session, requests, friends, moods, messages, posts, reqs, clock>>

---------------------------------------------------------------------------
(* Direct calls of the MoodMappingConcept methods *)

DoSetMood ==
  \E user \in Ids, friend \in Ids, mood \in MoodInputs :
    LET r == MoodMapping_setMood(moods, user, friend, mood)
    IN /\ moods' = r.moods
       /\ last' = RequestWith("setMood", user, friend, NoCall, mood, r.err)
       /\ UNCHANGED <<users, session, requests, friends, calls, messages, posts, reqs, clock>>

DoRemoveMood ==
  \E user \in Ids, friend \in Ids :
    LET r == MoodMapping_removeMood(moods, user, friend)
    IN /\ moods' = r.moods
       /\ last' = Request("removeMood", user, friend, NoCall, r.err)
       /\ UNCHANGED <<users, session, requests, friends, calls, messages, posts, reqs, clock>>

---------------------------------------------------------------------------
(* Direct calls of the TextingConcept methods *)

\* new Date() returns any date: the system clock is not monotonic, it can
\* be set back between two requests.
DoSendMessage ==
  \E sender \in Ids, recipient \in Ids, content \in Contents, now \in 1 .. MaxTime :
    LET r == Texting_sendMessage(messages, sender, recipient, content, now)
    IN /\ sender # recipient
       /\ Len(r.messages) <= MaxMessages
       /\ messages' = r.messages
       /\ clock' = IF r.err = "ok" THEN now ELSE clock
       /\ last' = RequestWith("sendMessage", sender, recipient, NoCall, content, r.err)
       /\ UNCHANGED <<users, session, requests, friends, calls, moods, posts, reqs>>

DoDeleteMessage ==
  \E id \in 1 .. (MaxMessages + 1) :
    LET r == Texting_deleteMessage(messages, id)
    IN /\ messages' = r.messages
       /\ last' = Request("deleteMessage", NoUser, NoUser, id, r.err)
       /\ UNCHANGED <<users, session, requests, friends, calls, moods, posts, reqs, clock>>

---------------------------------------------------------------------------
(* Concurrent calls of VideoCallingConcept.startCall: a call runs up to    *)
(* its next await in one step                                              *)

\* The call is made; nothing has run yet.
BeginStartCall ==
  \E r \in ReqIds, caller \in Ids, recipient \in Ids :
    /\ reqs[r].pc = "idle"
    /\ reqs' = [reqs EXCEPT ![r] = [Idle EXCEPT !.op = "startCall", !.pc = "createOne",
                                                !.a = caller, !.b = recipient]]
    /\ UNCHANGED <<users, session, requests, friends, calls, moods, messages, posts, clock, last>>

\* The check of the arguments and this.activeCalls.createOne.
StartCallCreate ==
  \E r \in ReqIds, now \in Dates(clock) :
    /\ reqs[r].op = "startCall"
    /\ reqs[r].pc = "createOne"
    /\ LET res == VideoCalling_startCall(calls, reqs[r].a, reqs[r].b, now)
       IN /\ calls' = res.calls
          /\ clock' = IF res.err = "ok" THEN now ELSE clock
          /\ reqs' = [reqs EXCEPT ![r] =
                        IF res.err = "ok"
                        THEN [@ EXCEPT !.pc = "readOne", !.id = Len(res.calls)]
                        ELSE [@ EXCEPT !.pc = "done", !.err = res.err]]
    /\ UNCHANGED <<users, session, requests, friends, moods, messages, posts, last>>

\* this.activeCalls.readOne({ _id }) and the return.
StartCallReturn ==
  \E r \in ReqIds :
    /\ reqs[r].op = "startCall"
    /\ reqs[r].pc = "readOne"
    /\ reqs' = [reqs EXCEPT ![r].pc = "done"]
    /\ UNCHANGED <<users, session, requests, friends, calls, moods, messages, posts, clock, last>>

---------------------------------------------------------------------------
(* Concurrent calls of FriendingConcept.acceptRequest: the existence       *)
(* check, the delete-request write and the create-edge write are three     *)
(* steps                                                                   *)

\* sendRequest, called on its own; last.id counts the requests created.
DoSendRequest ==
  \E from \in Ids, to \in Ids :
    LET res == Friending_sendRequest(requests, friends, from, to)
    IN /\ requests' = res.requests
       /\ last' = Request("sendRequest", from, to,
                         IF res.err = "ok" THEN last.id + 1 ELSE last.id, res.err)
       /\ UNCHANGED <<users, session, friends, calls, moods, messages, posts, reqs, clock>>

BeginAcceptRequest ==
  \E r \in ReqIds, from \in Ids, to \in Ids :
    /\ reqs[r].pc = "idle"
    /\ reqs' = [reqs EXCEPT ![r] = [Idle EXCEPT !.op = "acceptRequest", !.pc = "readOne",
                                                !.a = from, !.b = to]]
    /\ UNCHANGED <<users, session, requests, friends, calls, moods, messages, posts, clock, last>>

\* The existence check: is there a pending request from -> to?
AcceptRequestRead ==
  \E r \in ReqIds :
    /\ reqs[r].op = "acceptRequest"
    /\ reqs[r].pc = "readOne"
    /\ reqs' = [reqs EXCEPT ![r] =
                  IF BagIn(RequestDoc(reqs[r].a, reqs[r].b), requests)
                  THEN [@ EXCEPT !.pc = "deleteOne", !.seen = TRUE]
                  ELSE [@ EXCEPT !.pc = "done", !.err = "NotFound"]]
    /\ UNCHANGED <<users, session, requests, friends, calls, moods, messages, posts, clock, last>>

AcceptRequestDelete ==
  \E r \in ReqIds :
    /\ reqs[r].op = "acceptRequest"
    /\ reqs[r].pc = "deleteOne"
    /\ LET res == Friending_deleteRequest(requests, reqs[r].a, reqs[r].b)
       IN /\ requests' = res.requests
          /\ reqs' = [reqs EXCEPT ![r] =
                        IF res.err = "ok"
                        THEN [@ EXCEPT !.pc = "createOne"]
                        ELSE [@ EXCEPT !.pc = "done", !.err = res.err]]
    /\ UNCHANGED <<users, session, friends, calls, moods, messages, posts, clock, last>>

AcceptRequestCreate ==
  \E r \in ReqIds :
    /\ reqs[r].op = "acceptRequest"
    /\ reqs[r].pc = "createOne"
    /\ friends' = friends (+) One(FriendDoc(reqs[r].a, reqs[r].b))
    /\ reqs' = [reqs EXCEPT ![r].pc = "done"]
    /\ UNCHANGED <<users, session, requests, calls, moods, messages, posts, clock, last>>

---------------------------------------------------------------------------
(* Concurrent calls of VideoCallingConcept.endCall: the read with its      *)
(* checks is one step, the update another                                  *)

BeginEndCall ==
  \E r \in ReqIds, callId \in CallIds :
    /\ reqs[r].pc = "idle"
    /\ reqs' = [reqs EXCEPT ![r] = [Idle EXCEPT !.op = "endCall", !.pc = "readOne",
                                                !.id = callId]]
    /\ UNCHANGED <<users, session, requests, friends, calls, moods, messages, posts, clock, last>>

\* this.activeCalls.readOne({ _id: callId }) and the two checks of what it returned.
EndCallRead ==
  \E r \in ReqIds :
    /\ reqs[r].op = "endCall"
    /\ reqs[r].pc = "readOne"
    /\ LET err == VideoCalling_endCall(calls, reqs[r].id, clock).err
       IN reqs' = [reqs EXCEPT ![r] =
                     IF err = "ok"
                     THEN [@ EXCEPT !.pc = "partialUpdateOne", !.seen = TRUE]
                     ELSE [@ EXCEPT !.pc = "done", !.err = err]]
    /\ UNCHANGED <<users, session, requests, friends, calls, moods, messages, posts, clock, last>>

\* new Date(), this.activeCalls.partialUpdateOne and the return.
EndCallUpdate ==
  \E r \in ReqIds, now \in Dates(clock) :
    /\ reqs[r].op = "endCall"
    /\ reqs[r].pc = "partialUpdateOne"
    /\ calls' = VideoCalling_writeEndTime(calls, reqs[r].id, now)
    /\ clock' = now
    /\ reqs' = [reqs EXCEPT ![r].pc = "done"]
    /\ UNCHANGED <<users, session, requests, friends, moods, messages, posts, last>>

---------------------------------------------------------------------------
(* Concurrent calls of MoodMappingConcept.setMood: the existence read is   *)
(* one step, the update or create another, the read of the result a third  *)

\* The call is made and the mood validated, before the first await.
BeginSetMood ==
  \E r \in ReqIds, user \in Ids, friend \in Ids, mood \in MoodInputs :
    /\ reqs[r].pc = "idle"
    /\ reqs' = [reqs EXCEPT ![r] =
                  IF InvalidMood(mood)
                  THEN [Idle EXCEPT !.op = "setMood", !.pc = "done", !.a = user,
                                    !.b = friend, !.arg = mood, !.err = "BadValues"]
                  ELSE [Idle EXCEPT !.op = "setMood", !.pc = "readOne", !.a = user,
                                    !.b = friend, !.arg = mood]]
    /\ UNCHANGED <<users, session, requests, friends, calls, moods, messages, posts, clock, last>>

\* existingMood = this.moods.readOne({ user })
SetMoodRead ==
  \E r \in ReqIds :
    /\ reqs[r].op = "setMood"
    /\ reqs[r].pc = "readOne"
    /\ reqs' = [reqs EXCEPT ![r] = [@ EXCEPT !.pc = "write",
                                             !.seen = MoodsOf(moods, reqs[r].a) # {}]]
    /\ UNCHANGED <<users, session, requests, friends, calls, moods, messages, posts, clock, last>>

\* partialUpdateOne when a document was read, createOne when none was.
SetMoodWrite ==
  \E r \in ReqIds :
    /\ reqs[r].op = "setMood"
    /\ reqs[r].pc = "write"
    /\ moods' = IF reqs[r].seen
                THEN MoodMapping_updateOne(moods, reqs[r].a, reqs[r].b, reqs[r].arg)
                ELSE moods (+) One(MoodDoc(reqs[r].a, reqs[r].b, reqs[r].arg))
    /\ reqs' = [reqs EXCEPT ![r].pc = "readBack"]
    /\ UNCHANGED <<users, session, requests, friends, calls, messages, posts, clock, last>>

\* The readOne of the document returned with the message.
SetMoodReturn ==
  \E r \in ReqIds :
    /\ reqs[r].op \in {"setMood", "setMood(user)"}
    /\ reqs[r].pc = "readBack"
    /\ reqs' = [reqs EXCEPT ![r].pc = "done"]
    /\ UNCHANGED <<users, session, requests, friends, calls, moods, messages, posts, clock, last>>

\* The same three steps of the per-user revision.
BeginUserSetMood ==
  \E r \in ReqIds, user \in Ids, mood \in MoodInputs :
    /\ reqs[r].pc = "idle"
    /\ reqs' = [reqs EXCEPT ![r] =
                  IF UserMood_invalid(mood)
                  THEN [Idle EXCEPT !.op = "setMood(user)", !.pc = "done", !.a = user,
                                    !.arg = mood, !.err = "BadValues"]
                  ELSE [Idle EXCEPT !.op = "setMood(user)", !.pc = "readOne", !.a = user,
                                    !.arg = mood]]
    /\ UNCHANGED <<users, session, requests, friends, calls, moods, messages, posts, clock, last>>

UserSetMoodRead ==
  \E r \in ReqIds :
    /\ reqs[r].op = "setMood(user)"
    /\ reqs[r].pc = "readOne"
    /\ reqs' = [reqs EXCEPT ![r] = [@ EXCEPT !.pc = "write",
                                             !.seen = MoodsOf(moods, reqs[r].a) # {}]]
    /\ UNCHANGED <<users, session, requests, friends, calls, moods, messages, posts, clock, last>>

UserSetMoodWrite ==
  \E r \in ReqIds :
    /\ reqs[r].op = "setMood(user)"
    /\ reqs[r].pc = "write"
    /\ moods' = IF reqs[r].seen
                THEN UserMood_updateOne(moods, reqs[r].a, reqs[r].arg)
                ELSE moods (+) One(MoodDoc(reqs[r].a, NoUser, reqs[r].arg))
    /\ reqs' = [reqs EXCEPT ![r].pc = "readBack"]
    /\ UNCHANGED <<users, session, requests, friends, calls, messages, posts, clock, last>>

---------------------------------------------------------------------------
(* Specifications *)

\* The VideoCallingConcept alone, its methods called with any arguments.
NextVideoCalling == DoStartCall \/ DoEndCall \/ DoAcceptPendingCall

SpecVideoCalling == InitPair /\ [][NextVideoCalling]_vars

\* The MoodMappingConcept alone, its methods called one after the other.
NextMoodMapping == DoSetMood \/ DoRemoveMood

SpecMoodMapping == Init /\ [][NextMoodMapping]_vars

\* The TextingConcept alone, its methods called one after the other.
NextTexting == DoSendMessage \/ DoDeleteMessage

SpecTexting == Init /\ [][NextTexting]_vars

\* Sessions and the post routes.
NextPosts ==
  \/ LogIn
  \/ LogOut
  \/ CreatePost(MaxPosts)
  \/ UpdatePost
  \/ DeletePost

SpecPosts == InitPair /\ [][NextPosts]_vars

\* Sessions and the account routes.
NextAccounts ==
  \/ LogIn
  \/ LogOut
  \/ UpdateUsername
  \/ UpdatePassword
  \/ DeleteUser

SpecAccounts == InitPair /\ [][NextAccounts]_vars

\* Every mutating route. The routes that fill the collections are
\* requested by anyone; the others by sessions nobody is logged in to.
NextGuests ==
  \/ LogIn
  \/ LogOut
  \/ SendFriendRequest
  \/ AcceptFriendRequest
  \/ CreatePost(MaxPeerDocs)
  \/ SetMood(MaxPeerDocs)
  \/ StartCall(MaxPeerDocs)
  \/ SendMessage(MaxPeerDocs)
  \/ Guest /\ UpdateUsername
  \/ Guest /\ UpdatePassword
  \/ Guest /\ DeleteUser
  \/ Guest /\ UpdatePost
  \/ Guest /\ DeletePost
  \/ Guest /\ RemoveFriend
  \/ Guest /\ RemoveFriendRequest
  \/ Guest /\ RejectFriendRequest
  \/ Guest /\ RemoveMood
  \/ Guest /\ EndCall
  \/ Guest /\ AcceptCall

SpecGuests == InitPair /\ [][NextGuests]_vars

\* Calls of VideoCallingConcept.startCall that run at the same time.
NextStartCallRace == BeginStartCall \/ StartCallCreate \/ StartCallReturn

SpecStartCallRace == Init /\ [][NextStartCallRace]_vars

\* Calls of FriendingConcept.acceptRequest that run at the same time.
NextAcceptRace ==
  \/ DoSendRequest
  \/ BeginAcceptRequest
  \/ AcceptRequestRead
  \/ AcceptRequestDelete
  \/ AcceptRequestCreate

SpecAcceptRace == InitPair /\ [][NextAcceptRace]_vars

\* Calls of VideoCallingConcept.endCall that run at the same time, on
\* calls that startCall stored and acceptPendingCall may have accepted.
NextEndCallRace ==
  \/ DoStartCall
  \/ DoAcceptPendingCall
  \/ BeginEndCall
  \/ EndCallRead
  \/ EndCallUpdate

SpecEndCallRace == InitPair /\ [][NextEndCallRace]_vars

\* Calls of MoodMappingConcept.setMood that run at the same time.
NextMoodRace == BeginSetMood \/ SetMoodRead \/ SetMoodWrite \/ SetMoodReturn

SpecMoodRace == InitPair /\ [][NextMoodRace]_vars

\* The same for the per-user revision of the concept.
NextUserMoodRace == BeginUserSetMood \/ UserSetMoodRead \/ UserSetMoodWrite \/ SetMoodReturn

SpecUserMoodRace == InitPair /\ [][NextUserMoodRace]_vars

\* Sessions and the friending routes.
NextFriending ==
  \/ LogIn
  \/ LogOut
  \/ SendFriendRequest
  \/ RemoveFriendRequest
  \/ AcceptFriendRequest
  \/ RejectFriendRequest
  \/ RemoveFriend

SpecFriending == Init /\ [][NextFriending]_vars

\* Sessions, making and ending friendships, and the call routes.
NextCalls ==
  \/ LogIn
  \/ LogOut
  \/ SendFriendRequest
  \/ AcceptFriendRequest
  \/ RemoveFriend
  \/ StartCall(MaxCalls)
  \/ EndCall
  \/ AcceptCall

SpecCalls == InitPair /\ [][NextCalls]_vars

\* Sessions, making and ending friendships, and every peer-directed route.
NextPeers ==
  \/ LogIn
  \/ LogOut
  \/ SendFriendRequest
  \/ AcceptFriendRequest
  \/ RemoveFriend
  \/ SetMood(MaxPeerDocs)
  \/ GetMood
  \/ RemoveMood
  \/ StartCall(MaxPeerDocs)
  \/ GetMessagesBetweenUsers
  \/ SendMessage(MaxPeerDocs)

SpecPeers == InitPair /\ [][NextPeers]_vars

\* Every route, for two accounts.
Next ==
  \/ NextFriending
  \/ NextPeers
  \/ EndCall
  \/ AcceptCall
  \/ NextPosts
  \/ NextAccounts

Spec == InitPair /\ [][Next]_vars

---------------------------------------------------------------------------
(* Claims about the call lifecycle *)

\* The call with this index is the only un-ended call of its two parties.
OnlyCallOf(i, a, b) ==
  /\ i \in DOMAIN calls
  /\ calls[i].caller = a
  /\ calls[i].recipient = b
  /\ UnendedCallsOf(calls, a) = {i}
  /\ UnendedCallsOf(calls, b) = {i}

C1_PendingAfterStart ==
  \A a, b \in users :
    (/\ last.op = "POST /calls"
     /\ last.err = "ok"
     /\ last.user = a.id
     /\ last.peer = b.username
     /\ OnlyCallOf(Len(calls), a.id, b.id))
    => /\ CallStatusAnswers(b.id) = {CallStatus("pending", a.username, NoName, NoName)}
       /\ CallStatusAnswers(a.id) = {CallStatus("pending", NoName, b.username, NoName)}

C1_ActiveAfterAccept ==
  \A a, b \in users :
    (/\ last.op = "PUT /calls/accept"
     /\ last.err = "ok"
     /\ last.user = b.id
     /\ \E i \in DOMAIN calls : OnlyCallOf(i, a.id, b.id))
    => /\ CallStatusAnswers(b.id) = {CallStatus("active", NoName, NoName, a.username)}
       /\ CallStatusAnswers(a.id) = {CallStatus("active", NoName, NoName, b.username)}

C1_NoneAfterEnd ==
  \A a, b \in users :
    (/\ last.op = "PUT /calls/end"
     /\ last.err = "ok"
     /\ last.user \in {a.id, b.id}
     /\ calls[last.id].caller = a.id
     /\ calls[last.id].recipient = b.id
     /\ UnendedCallsOf(calls, a.id) = {}
     /\ UnendedCallsOf(calls, b.id) = {})
    => /\ CallStatusAnswers(a.id) = {CallStatus("none", NoName, NoName, NoName)}
       /\ CallStatusAnswers(b.id) = {CallStatus("none", NoName, NoName, NoName)}

\* C1: for two friends a and b with no other calls, GET /calls/status answers
\* "pending" (caller a for b, recipient b for a) once a's POST /calls
\* succeeded, "active" naming the other party for both once b's
\* PUT /calls/accept succeeded, and no call for both once either ended it.
C1_CallLifecycle ==
  /\ C1_PendingAfterStart
  /\ C1_ActiveAfterAccept
  /\ C1_NoneAfterEnd

\* C2: whatever startCall, acceptPendingCall and endCall calls were made, a
\* user is the caller or the recipient of at most one call without end time.
C2_AtMostOneUnendedCallPerUser ==
  \A u \in UserIds : Cardinality(UnendedCallsOf(calls, u)) <= 1

\* C3: acceptPendingCall fails and changes nothing when no pending call is
\* addressed to the user (in particular when the user's call was already
\* accepted), a call that is active is left as it is, and a success turns
\* exactly one pending call addressed to the user active.
C3_AcceptedAtMostOnce ==
  [][last'.op = "acceptPendingCall" =>
       /\ \A i \in DOMAIN calls :
            calls[i].status = "active" => (i \in DOMAIN calls' /\ calls'[i] = calls[i])
       /\ (\A i \in DOMAIN calls :
             (calls[i].recipient = last'.user /\ calls[i].endTime = NoTime)
               => calls[i].status = "active")
            => (last'.err # "ok" /\ calls' = calls)
       /\ last'.err = "ok" =>
            \E i \in DOMAIN calls :
              /\ calls[i].recipient = last'.user
              /\ calls[i].endTime = NoTime
              /\ calls[i].status # "active"
              /\ calls' = [calls EXCEPT ![i].status = "active"]]_vars

\* The second acceptPendingCall of a recipient whose call is accepted failed.
C3_SecondAcceptFailed ==
  /\ last.op = "acceptPendingCall"
  /\ last.err = "NotFound"
  /\ \E i \in DOMAIN calls :
       /\ calls[i].recipient = last.user
       /\ calls[i].status = "active"
       /\ calls[i].endTime = NoTime

\* C4: endCall(callId) fails with NotFound when no call has that id and with
\* BadValues when the call has an end time, the collection unchanged in both
\* cases; on a call without end time it succeeds and sets the end time only.
C4_EndCallRejections ==
  [][last'.op = "endCall" =>
       /\ last'.id \notin DOMAIN calls
            => (last'.err = "NotFound" /\ calls' = calls)
       /\ (last'.id \in DOMAIN calls /\ calls[last'.id].endTime # NoTime)
            => (last'.err = "BadValues" /\ calls' = calls)
       /\ (last'.id \in DOMAIN calls /\ calls[last'.id].endTime = NoTime)
            => /\ last'.err = "ok"
               /\ calls'[last'.id].endTime # NoTime
               /\ calls' = [calls EXCEPT ![last'.id].endTime = calls'[last'.id].endTime]
       /\ last'.err = "ok" => (last'.id \in DOMAIN calls /\ calls[last'.id].endTime = NoTime)]_vars

\* endCall on a call that ended earlier failed, at a later time than its end.
C4_EndedCallRejected ==
  /\ last.op = "endCall"
  /\ last.err = "BadValues"
  /\ last.id \in DOMAIN calls
  /\ calls[last.id].endTime # NoTime
  /\ calls[last.id].endTime < clock

\* C5: startCall(a, a) fails with BadValues and creates no call.
C5_SelfCallRejected ==
  [][(last'.op = "startCall" /\ last'.user = last'.peer) =>
       (last'.err = "BadValues" /\ calls' = calls)]_vars

\* startCall(a, a) failed while calls exist.
C5_SelfCallTried ==
  /\ last.op = "startCall"
  /\ last.user = last.peer
  /\ last.err = "BadValues"
  /\ calls # <<>>

---------------------------------------------------------------------------
(* Claims about the friendship graph *)

\* The request of the step: the logged-in user and the account the name resolves to.
Acting == last'.user
Named == Authing_getUserByUsername(last'.peer)
Resolved == Acting # NoUser /\ Named # NoUser

\* No self-request, at most one pending request per pair counting both
\* directions, and no pending request between friends.
RequestsWellFormed(rq, fr) ==
  /\ \A d \in BagToSet(rq) : d.from # d.to
  /\ \A a, b \in UserIds :
       CopiesIn(RequestDoc(a, b), rq) + (IF a = b THEN 0 ELSE CopiesIn(RequestDoc(b, a), rq)) <= 1
  /\ \A a, b \in UserIds : AreFriends(fr, a, b) => RequestsBetween(rq, a, b) = {}

\* C6: a friend request to oneself, to a user with a pending request between
\* the two in either direction, or to a friend fails and changes neither the
\* requests nor the edges; so no state has a self-request, two pending
\* requests for one pair, or a pending request between friends.
C6_SendRequestGuards ==
  [][/\ (/\ last'.op = "POST /friend/requests"
         /\ Resolved
         /\ \/ Acting = Named
            \/ RequestsBetween(requests, Acting, Named) # {}
            \/ AreFriends(friends, Acting, Named))
          => (last'.err # "ok" /\ requests' = requests /\ friends' = friends)
     /\ RequestsWellFormed(requests', friends')]_vars

\* A request failed because the named user's request to the sender is pending.
C6_ReverseRequestRefused ==
  /\ last.op = "POST /friend/requests"
  /\ last.err # "ok"
  /\ last.user # NoUser
  /\ BagIn(RequestDoc(Authing_getUserByUsername(last.peer), last.user), requests)

\* C7: the friend relation is symmetric; an edge between a and b appears only
\* in a successful PUT /friend/accept of the party a pending request between
\* them is addressed to; and after that accept the two are friends with no
\* pending request between them.
C7_FriendsOnlyByAccept ==
  [][/\ \A a \in users', b \in users' :
          b.username \in Routes_getFriends(a.id)' <=> a.username \in Routes_getFriends(b.id)'
     /\ \A a, b \in UserIds :
          (~AreFriends(friends, a, b) /\ AreFriends(friends', a, b))
            => /\ last'.op = "PUT /friend/accept"
               /\ last'.err = "ok"
               /\ {a, b} = {Acting, Named}
               /\ BagIn(RequestDoc(Named, Acting), requests)
     /\ (last'.op = "PUT /friend/accept" /\ last'.err = "ok")
          => /\ AreFriends(friends', Named, Acting)
             /\ Named \in Friending_getFriends(friends', Acting)
             /\ Acting \in Friending_getFriends(friends', Named)
             /\ RequestsBetween(requests', Named, Acting) = {}]_vars

\* An accept succeeded and both see each other among their friends.
C7_Accepted ==
  /\ last.op = "PUT /friend/accept"
  /\ last.err = "ok"
  /\ last.peer \in Routes_getFriends(last.user)
  /\ Authing_usernameOf(last.user) \in Routes_getFriends(Authing_getUserByUsername(last.peer))

\* C8: PUT /friend/accept fails with NotFound and creates no edge when no
\* request from the named user to the logged-in user is pending; in
\* particular the sender of a pending request cannot accept it.
C8_AcceptNeedsRequest ==
  [][(/\ last'.op = "PUT /friend/accept"
      /\ Resolved
      /\ ~BagIn(RequestDoc(Named, Acting), requests))
       => (last'.err = "NotFound" /\ friends' = friends /\ requests' = requests)]_vars

\* The sender of a pending request tried to accept it and got NotFound.
C8_SenderCannotAccept ==
  /\ last.op = "PUT /friend/accept"
  /\ last.err = "NotFound"
  /\ last.user # NoUser
  /\ BagIn(RequestDoc(last.user, Authing_getUserByUsername(last.peer)), requests)

\* C9: a successful friend request between two users with no relation adds
\* exactly the request a -> b; the DELETE /friend/requests of the same user
\* for the same name that follows it at once succeeds and removes exactly
\* that request, so that the graph is the one before the request was sent;
\* and the DELETE fails, changing nothing, when no request a -> b is pending.
C9_SendThenCancel ==
  [][/\ (last'.op = "POST /friend/requests" /\ last'.err = "ok")
          => /\ RequestsBetween(requests, Acting, Named) = {}
             /\ ~AreFriends(friends, Acting, Named)
             /\ requests' = requests (+) One(RequestDoc(Acting, Named))
             /\ friends' = friends
     /\ (/\ last'.op = "DELETE /friend/requests"
         /\ last.op = "POST /friend/requests"
         /\ last.err = "ok"
         /\ last'.user = last.user
         /\ last'.peer = last.peer)
          => /\ last'.err = "ok"
             /\ requests' (+) One(RequestDoc(Acting, Named)) = requests
             /\ friends' = friends
             /\ RequestsBetween(requests', Acting, Named) = {}
             /\ ~AreFriends(friends', Acting, Named)
     /\ (/\ last'.op = "DELETE /friend/requests"
         /\ Resolved
         /\ ~BagIn(RequestDoc(Acting, Named), requests))
          => (last'.err = "NotFound" /\ requests' = requests /\ friends' = friends)]_vars

\* A request was cancelled while other requests and edges exist.
C9_Cancelled ==
  /\ last.op = "DELETE /friend/requests"
  /\ last.err = "ok"
  /\ RequestsBetween(requests, last.user, Authing_getUserByUsername(last.peer)) = {}
  /\ ~AreFriends(friends, last.user, Authing_getUserByUsername(last.peer))
  /\ requests # EmptyBag
  /\ friends # EmptyBag

---------------------------------------------------------------------------
(* Claims about the peer-directed routes *)

PeerRoutes ==
  {"POST /messages", "GET /messages", "POST /moods", "GET /moods", "DELETE /moods",
   "POST /calls"}

\* C10: a peer-directed request (send or get messages, set, get or remove
\* mood, start call) of a logged-in user naming an account that is not a
\* friend fails with an authorization error and changes no message, mood
\* or call.
C10_PeerRoutesNeedFriendship ==
  [][(/\ last'.op \in PeerRoutes
      /\ Resolved
      /\ ~AreFriends(friends, Acting, Named))
       => /\ last'.err = "NotAllowed"
          /\ messages' = messages
          /\ moods' = moods
          /\ calls' = calls]_vars

\* A call to a former friend (the two exchanged a message) was refused.
C10_RefusedAfterRemoveFriend ==
  /\ last.op = "POST /calls"
  /\ last.err = "NotAllowed"
  /\ ~AreFriends(friends, last.user, Authing_getUserByUsername(last.peer))
  /\ \E i \in DOMAIN messages :
       /\ messages[i].sender = last.user
       /\ messages[i].recipient = Authing_getUserByUsername(last.peer)

---------------------------------------------------------------------------
(* Claims about the moods *)

\* The records of the collection that a pair owns, with their multiplicity.
MoodRecords(ms, user, friend) ==
  [d \in MoodsOfPair(ms, user, friend) |-> CopiesIn(d, ms)]

\* C11: after any sequence of setMood and removeMood calls the collection
\* holds at most one record for each ordered pair (owner, friend), and two
\* successive successful setMood(u, f, m1), setMood(u, f, m2) leave exactly
\* one record for (u, f), whose value is m2.
C11_OneMoodRecordPerPair ==
  [][/\ \A u, f \in Ids :
          BagCardinality(MoodRecords(moods', u, f)) <= 1
     /\ (/\ last.op = "setMood" /\ last.err = "ok"
         /\ last'.op = "setMood" /\ last'.err = "ok"
         /\ last'.user = last.user /\ last'.peer = last.peer)
        => MoodRecords(moods', last'.user, last'.peer)
             = One(MoodDoc(last'.user, last'.peer, last'.arg))]_vars

\* C12: moods are independent per directed pair: whatever the collection
\* holds (a mood of u toward another friend g included), a successful
\* setMood(u, f, m) of a valid mood is followed by getBothMoods(u, f)
\* reporting yourMood = m, and leaves the stored mood of every other
\* ordered pair as it was.
C12_MoodsIndependentPerPair ==
  [][(last'.op = "setMood" /\ last'.err = "ok")
     => LET u == last'.user
            f == last'.peer
        IN /\ \A b \in MoodMapping_getBothMoods(moods', u, f) : b.yourMood = last'.arg
           /\ \A x, y \in Ids :
                <<x, y>> # <<u, f>>
                => MoodRecords(moods', x, y) = MoodRecords(moods, x, y)]_vars

\* C13: for friends u and f, GET /moods/:recipient by u naming f does not
\* fail whether or not moods are stored, and reports u's stored mood
\* toward f and f's stored mood toward u, each as empty when there is no
\* record for that direction.
C13_MoodQueryReportsBothDirections ==
  \A a, b \in users :
    (/\ last.op = "GET /moods"
     /\ last.user = a.id
     /\ last.peer = b.username
     /\ AreFriends(friends, a.id, b.id))
    => /\ last.err = "ok"
       /\ Routes_getMoodAnswers(a.id, b.username)
            = {MoodAnswer(OrEmpty(y), b.username, OrEmpty(t)) :
                 y \in MoodMapping_readMood(moods, a.id, b.id),
                 t \in MoodMapping_readMood(moods, b.id, a.id)}

---------------------------------------------------------------------------
(* Claims about the messages *)

\* The stored messages one of the two sent to the other.
StoredBetween(a, b) ==
  {messages[i] : i \in {j \in DOMAIN messages :
                          <<messages[j].sender, messages[j].recipient>> \in {<<a, b>>, <<b, a>>}}}

\* C14: after any sendMessage and deleteMessage calls, for every pair
\* (a, b), getMessagesBetweenUsers(a, b) returns each stored message that
\* one of a and b sent to the other exactly once and no other message, in
\* non-decreasing timestamp order, and getMessagesBetweenUsers(b, a)
\* returns the same messages.
C14_MessagesBetweenUsers ==
  \A a, b \in Ids :
    /\ Texting_getMessagesBetweenUsers(messages, a, b) # {}
    /\ \A found \in Texting_getMessagesBetweenUsers(messages, a, b) :
         /\ {found[k] : k \in DOMAIN found} = StoredBetween(a, b)
         /\ Len(found) = Cardinality(StoredBetween(a, b))
         /\ \A j, k \in DOMAIN found :
              j <= k => found[j].timestamp <= found[k].timestamp
    /\ Texting_getMessagesBetweenUsers(messages, b, a)
         = Texting_getMessagesBetweenUsers(messages, a, b)

\* A message was deleted, and the collection holds a message from u1 to
\* u2 stored before an earlier-dated one from u2 to u1.
C14_BothDirectionsOutOfOrder ==
  /\ last.op = "deleteMessage"
  /\ \E i, j \in DOMAIN messages :
       /\ i < j
       /\ messages[i].sender = "u1" /\ messages[i].recipient = "u2"
       /\ messages[j].sender = "u2" /\ messages[j].recipient = "u1"
       /\ messages[i].timestamp > messages[j].timestamp

---------------------------------------------------------------------------
(* Claims about the posts *)

\* C16: a post is changed or removed only by its author: every step that
\* changes or removes a stored post is a successful PATCH /posts/:id or
\* DELETE /posts/:id of that post by its author, and every new post is
\* written by the user it names as author; so a request to change or
\* remove a post by a logged-in user who is not its author fails and
\* leaves the posts as they were.
C16_OnlyAuthorChangesPost ==
  [][/\ \A i \in DOMAIN posts :
          (\A j \in DOMAIN posts' : posts'[j] # posts[i])
          => /\ last'.op \in {"PATCH /posts", "DELETE /posts"}
             /\ last'.err = "ok"
             /\ last'.id = posts[i].id
             /\ last'.user = posts[i].author
     /\ \A j \in DOMAIN posts' :
          (\A i \in DOMAIN posts : posts[i] # posts'[j])
          => /\ last'.op \in {"PATCH /posts", "POST /posts"}
             /\ last'.err = "ok"
             /\ last'.arg = posts'[j].content
             /\ last'.user = posts'[j].author
     /\ (/\ last'.op \in {"PATCH /posts", "DELETE /posts"}
         /\ last'.user # NoUser
         /\ \E i \in DOMAIN posts : posts[i].id = last'.id /\ posts[i].author # last'.user)
        => last'.err = "NotAllowed" /\ posts' = posts]_vars

\* bob asked to change alice's post and was refused.
C16_OtherUserRefused ==
  /\ last.op = "PATCH /posts"
  /\ last.user = "u2"
  /\ last.err = "NotAllowed"
  /\ \E i \in DOMAIN posts :
       posts[i].id = last.id /\ posts[i].author = "u1" /\ posts[i].content # last.arg

---------------------------------------------------------------------------
(* Claims about sessions nobody is logged in to *)

\* The routes that write, but for POST /login and POST /users.
MutatingRoutes ==
  {"PATCH /users/username", "PATCH /users/password", "DELETE /users", "POST /logout",
   "POST /posts", "PATCH /posts", "DELETE /posts",
   "DELETE /friends", "POST /friend/requests", "DELETE /friend/requests",
   "PUT /friend/accept", "PUT /friend/reject",
   "POST /moods", "DELETE /moods",
   "POST /calls", "PUT /calls/end", "PUT /calls/accept",
   "POST /messages"}

\* C15: a request to a mutating route other than login and register, made
\* with a session that has no logged-in user, fails and leaves the users,
\* the posts, the friends and friend requests, the messages, the moods,
\* the calls and the session as they were.
C15_GuestsChangeNothing ==
  [][(last'.op \in MutatingRoutes /\ Guest)
     => /\ last'.err # "ok"
        /\ UNCHANGED <<users, posts, friends, requests, messages, moods, calls, session>>]_vars

\* Nobody is logged in, a post and an un-ended call between friends are
\* stored, and the request to end the call was refused.
C15_GuestRefused ==
  /\ Guest
  /\ last.op = "PUT /calls/end"
  /\ last.user = NoUser
  /\ last.err = "Unauthenticated"
  /\ posts # <<>>
  /\ friends # EmptyBag
  /\ \E i \in DOMAIN calls : calls[i].endTime = NoTime

---------------------------------------------------------------------------
(* Claims about requests that run at the same time *)

\* The calls of an operation that have got past the step `pc`.
Past(op, pcs) == {r \in ReqIds : reqs[r].op = op /\ reqs[r].pc \in pcs}

\* C17: nothing prevents concurrent startCall calls for one pair of users
\* from all succeeding: whatever the other calls have stored, a startCall
\* of two distinct users is never refused and stores an un-ended call
\* record of its own, so that two calls for the same pair leave two
\* un-ended records.
C17_StartCallNeverRefused ==
  /\ \A r \in Past("startCall", {"readOne", "done"}) :
       /\ reqs[r].a # reqs[r].b <=> reqs[r].err = "ok"
       /\ reqs[r].a # reqs[r].b <=> reqs[r].id \in DOMAIN calls
       /\ reqs[r].id \in DOMAIN calls
          => /\ calls[reqs[r].id].caller = reqs[r].a
             /\ calls[reqs[r].id].recipient = reqs[r].b
             /\ calls[reqs[r].id].endTime = NoTime
  /\ \A r1, r2 \in Past("startCall", {"readOne", "done"}) :
       (r1 # r2 /\ reqs[r1].id # NoCall) => reqs[r1].id # reqs[r2].id

\* Two startCall(u1, u2) calls have both stored their record before either
\* returned: two un-ended call records for the same pair.
C17_TwoUnendedCallsOfOnePair ==
  \E r1, r2 \in Past("startCall", {"readOne"}) :
    /\ r1 # r2
    /\ reqs[r1].a = "u1" /\ reqs[r1].b = "u2"
    /\ reqs[r2].a = "u1" /\ reqs[r2].b = "u2"
    /\ Cardinality({i \in DOMAIN calls : /\ calls[i].caller = "u1"
                                         /\ calls[i].recipient = "u2"
                                         /\ calls[i].endTime = NoTime}) = 2

\* C18: nothing prevents concurrent acceptRequest(from, to) calls on one
\* pending request from all succeeding: an acceptRequest that found the
\* request at its existence check is never refused afterwards, and every
\* acceptRequest that returned successfully has created a friend edge of
\* its own, so that one request accepted by two calls leaves two edges.
C18_AcceptNeverRefusedAfterCheck ==
  /\ \A r \in Past("acceptRequest", {"deleteOne", "createOne", "done"}) :
       reqs[r].seen <=> reqs[r].err = "ok"
  /\ \A from, to \in Ids :
       CopiesIn(FriendDoc(from, to), friends)
         = Cardinality({r \in Past("acceptRequest", {"done"}) :
                          reqs[r].a = from /\ reqs[r].b = to /\ reqs[r].err = "ok"})

\* One request was ever created, from u1 to u2, and the friend edge of
\* u1 and u2 is stored twice.
C18_EdgeCreatedTwice ==
  /\ last = Request("sendRequest", "u1", "u2", 1, "ok")
  /\ requests = EmptyBag
  /\ CopiesIn(FriendDoc("u1", "u2"), friends) = 2

\* C19: ended is terminal: once a call record has an end time, no step of
\* any operation, however concurrent endCall calls interleave their read
\* and their update, removes or changes that end time; and at most one
\* endCall call per call record ever returns successfully.
C19_EndedIsTerminal ==
  [][/\ \A i \in DOMAIN calls :
          calls[i].endTime # NoTime
          => i \in DOMAIN calls' /\ calls'[i].endTime = calls[i].endTime
     /\ \A i \in CallIds :
          Cardinality({r \in ReqIds : /\ reqs'[r].op = "endCall"
                                     /\ reqs'[r].id = i
                                     /\ reqs'[r].pc = "done"
                                     /\ reqs'[r].err = "ok"}) <= 1]_vars

\* C20: the collection holds at most one mood record for each ordered
\* pair (owner, friend) also when setMood calls for the same pair run at
\* the same time, interleaved between the existence read and the write.
C20_OneMoodRecordPerPairConcurrently ==
  \A u \in Ids, f \in Ids \cup {NoUser} :
    BagCardinality(MoodRecords(moods, u, f)) <= 1

====
